---- MODULE Spec2Model ----
(***************************************************************************)
(* The account-deletion routes of the users router (DELETE /profile and    *)
(* DELETE /:userId), the authenticateToken middleware in front of them and *)
(* the read routes GET /:id, GET /:id/posts and GET /:id/comments.         *)
(*                                                                         *)
(* Node runs a handler from the arrival of the request up to its first     *)
(* await without interruption, and then from one await to the next.  One   *)
(* action of the model is one such stretch: Begin is the middleware plus   *)
(* the handler up to the first delete being sent, DeleteStep is the store  *)
(* executing the awaited delete and the handler's continuation after it.   *)
(*                                                                         *)
(* The store (PostgREST behind supabase-js) executes one delete statement  *)
(* atomically: it either removes every matching row and reports no error,  *)
(* or reports an error and removes nothing.  A delete that matches no row  *)
(* reports no error.  Store failures are an input of each step.            *)
(***************************************************************************)
EXTENDS Integers, Sequences, FiniteSets, TLC

\* ---------------------------------------------------------------- bounds
MaxRuns == 2          \* deletion requests that arrive in one behaviour

Accounts == {"u1", "u2"}
Runs == 1..MaxRuns

\* ---------------------------------------------------------------- store
LinkTables == {"likes", "comments", "bookmarks"}
DependentTables == {"posts", "subscribers"} \cup LinkTables
Tables == DependentTables \cup {"users"}

\* The order of the awaited calls in both delete handlers.
StepTable == <<"posts", "likes", "comments", "bookmarks", "subscribers",
               "users", "auth.users">>

PostRows == {[id |-> 1, user_id |-> "u1"], [id |-> 2, user_id |-> "u2"]}
LinkRows == {[user_id |-> a, post_id |-> p.id] : a \in Accounts, p \in PostRows}
SubscriberRows == {row \in [subscriber_id : Accounts, creator_id : Accounts] :
                      row.subscriber_id # row.creator_id}
UserRows == {[id |-> a] : a \in Accounts}

\* Faulty variant: the subscribers filter names subscriber_id only.
Matches_subscriberOnly(table, row, id) ==
    CASE table = "subscribers" -> row.subscriber_id = id
      [] table = "users"       -> row.id = id
      [] OTHER                 -> row.user_id = id

\* .eq('user_id', id), .or(`subscriber_id.eq.${id},creator_id.eq.${id}`),
\* .eq('id', id)
Matches(table, row, id) ==
    CASE table = "subscribers" -> row.subscriber_id = id \/ row.creator_id = id
      [] table = "users"       -> row.id = id
      [] OTHER                 -> row.user_id = id

Matching(table, rows, id) == {row \in rows : Matches(table, row, id)}

\* Faulty variant: a delete that matches no row reports an error, as .single() does.
StoreDelete_errorOnNoRows(rows, matching, fault) ==
    IF fault \/ matching = {} THEN [error |-> TRUE, rows |-> rows]
    ELSE [error |-> FALSE, rows |-> rows \ matching]

\* Faulty variant: a delete that reports an error has removed the rows all the same.
StoreDelete_appliedOnError(rows, matching, fault) ==
    [error |-> fault, rows |-> rows \ matching]

\* supabase.from(t).delete().<filter>: the awaited result and the new table.
StoreDelete(rows, matching, fault) ==
    IF fault THEN [error |-> TRUE, rows |-> rows]
    ELSE [error |-> FALSE, rows |-> rows \ matching]

\* supabase.auth.admin.deleteUser(id): fault is "none", "error" or "thrown".
AdminDeleteUser(ids, id, fault) ==
    IF fault # "none" THEN [outcome |-> fault, ids |-> ids]
    ELSE IF id \in ids THEN [outcome |-> "ok", ids |-> ids \ {id}]
    ELSE [outcome |-> "error", ids |-> ids]

\* ---------------------------------------------------------------- tokens
\* What jwt.verify yields for the tokens that carry a valid signature; ""
\* stands for a missing field (undefined).
JwtPayload == [t1 |-> [userId |-> "u1", id |-> ""],
               t2 |-> [userId |-> "", id |-> "u2"]]
NoUser == [userId |-> "", id |-> ""]

\* The authorization header after split(' '); <<>> is an absent header.
Headers == {<<>>, <<"Bearer">>, <<"Bearer", "bad">>,
            <<"Bearer", "t1">>, <<"Bearer", "t2">>}

\* authHeader && authHeader.split(' ')[1]
TokenOf(header) == IF Len(header) >= 2 THEN header[2] ELSE ""

\* Faulty variant: next() is called although jwt.verify reported an error.
AuthenticateToken_ignoreVerifyError(header) ==
    LET token == TokenOf(header) IN
    IF token = ""
    THEN [next |-> FALSE, status |-> 401, message |-> "Access denied", user |-> NoUser]
    ELSE IF token \notin DOMAIN JwtPayload
    THEN [next |-> TRUE, status |-> 0, message |-> "", user |-> NoUser]
    ELSE [next |-> TRUE, status |-> 0, message |-> "", user |-> JwtPayload[token]]

AuthenticateToken(header) ==
    LET token == TokenOf(header) IN
    IF token = ""
    THEN [next |-> FALSE, status |-> 401, message |-> "Access denied", user |-> NoUser]
    ELSE IF token \notin DOMAIN JwtPayload
    THEN [next |-> FALSE, status |-> 403, message |-> "Invalid token", user |-> NoUser]
    ELSE [next |-> TRUE, status |-> 0, message |-> "", user |-> JwtPayload[token]]

\* req.user.userId || req.user.id
LoggedInUserId(user) == IF user.userId # "" THEN user.userId ELSE user.id

\* The two delete routes: "profile" takes no parameter, "userId" takes one.
Requests == {[route |-> "profile", param |-> ""]}
            \cup {[route |-> "userId", param |-> a] : a \in Accounts}

\* Faulty variant: DELETE /:userId without the comparison with the caller's id.
StartDelete_unchecked(request, user) ==
    IF request.route = "profile"
    THEN [forbidden |-> FALSE, userId |-> LoggedInUserId(user)]
    ELSE [forbidden |-> FALSE, userId |-> request.param]

\* The handler up to its first await: the account the workflow will delete,
\* or the 403 of DELETE /:userId.
StartDelete(request, user) ==
    IF request.route = "profile"
    THEN [forbidden |-> FALSE, userId |-> LoggedInUserId(user)]
    ELSE IF request.param # LoggedInUserId(user)
    THEN [forbidden |-> TRUE, userId |-> request.param]
    ELSE [forbidden |-> FALSE, userId |-> request.param]

\* Faulty variant: the error of a step is logged and not thrown.
AfterDelete_ignoreError(error) ==
    [done |-> FALSE, status |-> 0, message |-> ""]

\* The response once the awaited delete of one of steps 1-6 has returned.
AfterDelete(error) ==
    IF error THEN [done |-> TRUE, status |-> 500, message |-> "Error deleting account"]
    ELSE [done |-> FALSE, status |-> 0, message |-> ""]

\* Faulty variant: step 7 without its try/catch.
AfterCredentialDelete_rethrow(outcome) ==
    IF outcome = "thrown"
    THEN [status |-> 500, message |-> "Error deleting account"]
    ELSE [status |-> 200, message |-> "Account successfully deleted"]

\* Faulty variant: the error that step 7 returns is thrown like the others.
AfterCredentialDelete_checkError(outcome) ==
    IF outcome = "error"
    THEN [status |-> 500, message |-> "Error deleting account"]
    ELSE [status |-> 200, message |-> "Account successfully deleted"]

\* The response after step 7, whose failure is caught and logged.
AfterCredentialDelete(outcome) ==
    [status |-> 200, message |-> "Account successfully deleted"]

NoResponse == [status |-> 0, message |-> ""]

\* ---------------------------------------------------------------- state
VARIABLES
    db,         \* the primary store: table name -> set of rows
    authUsers,  \* the identity service: ids that have a credential record
    pc,         \* per request: "idle" (not arrived), "await", "done"
    header,     \* per request: its authorization header
    user,       \* per request: req.user
    userId,     \* per request: the handler's userId
    step,       \* per request: the step whose call is awaited (1..7), or 0
    res,        \* per request: the response [status, message]
    ops,        \* per request: the calls that returned, in order, each with
                \* the failure injected and the outcome
    before,     \* the store when the latest request arrived (serial runs)
    lastRead    \* the response of the latest read request

vars == <<db, authUsers, pc, header, user, userId, step, res, ops, before, lastRead>>

NoRead == [route |-> "", id |-> "", status |-> 0, found |-> FALSE, rows |-> {}]

Populate(populated) ==
    [t \in Tables |->
        IF t = "users" THEN UserRows
        ELSE IF t \notin populated THEN {}
        ELSE IF t = "posts" THEN PostRows
        ELSE IF t = "subscribers" THEN SubscriberRows
        ELSE {row \in LinkRows : "posts" \in populated}]

Start(stores) ==
    /\ db \in stores
    /\ authUsers = Accounts
    /\ pc = [r \in Runs |-> "idle"]
    /\ header = [r \in Runs |-> <<>>]
    /\ user = [r \in Runs |-> NoUser]
    /\ userId = [r \in Runs |-> ""]
    /\ step = [r \in Runs |-> 0]
    /\ res = [r \in Runs |-> NoResponse]
    /\ ops = [r \in Runs |-> <<>>]
    /\ before = db
    /\ lastRead = NoRead

Stores == {Populate(populated) : populated \in SUBSET DependentTables}
FullStore == Populate(DependentTables)
\* Stores with posts, likes and comments, with or without bookmarks and
\* subscriptions: the initial stores of the overlapping requests.
BusyStores == {Populate(DependentTables \ empty) :
                  empty \in SUBSET {"bookmarks", "subscribers"}}

Init == Start(BusyStores)
InitSerial == Start(Stores)

\* ---------------------------------------------------------------- actions
\* A delete request arrives: authenticateToken, then the handler up to the
\* first awaited delete.  Requests take the slots in order.
Handle(r, request, hdr) ==
    LET auth == AuthenticateToken(hdr)
        start == StartDelete(request, auth.user)
    IN  /\ pc[r] = "idle"
        /\ \A q \in Runs : q < r => pc[q] # "idle"
        /\ header' = [header EXCEPT ![r] = hdr]
        /\ user' = [user EXCEPT ![r] = auth.user]
        /\ IF ~auth.next
           THEN /\ pc' = [pc EXCEPT ![r] = "done"]
                /\ res' = [res EXCEPT ![r] = [status |-> auth.status,
                                              message |-> auth.message]]
                /\ UNCHANGED <<userId, step>>
           ELSE IF start.forbidden
           THEN /\ pc' = [pc EXCEPT ![r] = "done"]
                /\ userId' = [userId EXCEPT ![r] = start.userId]
                /\ res' = [res EXCEPT ![r] =
                             [status |-> 403,
                              message |-> "You can only delete your own account"]]
                /\ UNCHANGED step
           ELSE /\ pc' = [pc EXCEPT ![r] = "await"]
                /\ userId' = [userId EXCEPT ![r] = start.userId]
                /\ step' = [step EXCEPT ![r] = 1]
                /\ UNCHANGED res
        /\ UNCHANGED <<db, authUsers, ops, lastRead>>

\* router.delete('/profile', authenticateToken, ...)
DeleteProfile(r) ==
    \E hdr \in Headers : Handle(r, [route |-> "profile", param |-> ""], hdr)

\* router.delete('/:userId', authenticateToken, ...)
DeleteUserId(r) ==
    \E a \in Accounts, hdr \in Headers :
        Handle(r, [route |-> "userId", param |-> a], hdr)

\* The store executes the awaited delete of one of steps 1-6 and the handler
\* continues: it throws to the catch block (500) or sends the next delete.
DeleteStep(r) ==
    /\ pc[r] = "await"
    /\ step[r] \in 1..6
    /\ \E fault \in BOOLEAN :
        LET t == StepTable[step[r]]
            out == StoreDelete(db[t], Matching(t, db[t], userId[r]), fault)
            after == AfterDelete(out.error)
        IN  /\ db' = [db EXCEPT ![t] = out.rows]
            /\ ops' = [ops EXCEPT ![r] = Append(@,
                          [target |-> t, id |-> userId[r],
                           fault |-> IF fault THEN "error" ELSE "none",
                           outcome |-> IF out.error THEN "error" ELSE "ok"])]
            /\ IF after.done
               THEN /\ pc' = [pc EXCEPT ![r] = "done"]
                    /\ res' = [res EXCEPT ![r] = [status |-> after.status,
                                                  message |-> after.message]]
                    /\ UNCHANGED step
               ELSE /\ step' = [step EXCEPT ![r] = @ + 1]
                    /\ UNCHANGED <<pc, res>>
    /\ UNCHANGED <<authUsers, header, user, userId, before, lastRead>>

\* Step 7: the identity service executes deleteUser and the handler answers.
CredentialStep(r) ==
    /\ pc[r] = "await"
    /\ step[r] = 7
    /\ \E fault \in {"none", "error", "thrown"} :
        LET out == AdminDeleteUser(authUsers, userId[r], fault)
            after == AfterCredentialDelete(out.outcome)
        IN  /\ authUsers' = out.ids
            /\ ops' = [ops EXCEPT ![r] = Append(@,
                          [target |-> "auth.users", id |-> userId[r],
                           fault |-> fault, outcome |-> out.outcome])]
            /\ pc' = [pc EXCEPT ![r] = "done"]
            /\ res' = [res EXCEPT ![r] = [status |-> after.status,
                                          message |-> after.message]]
    /\ UNCHANGED <<db, header, user, userId, step, before, lastRead>>

\* Faulty variant: the read waits while a deletion of the account is in flight.
GetProfile_isolated(id) ==
    /\ \A r \in Runs : ~(pc[r] = "await" /\ userId[r] = id)
    /\ lastRead' = IF Matching("users", db["users"], id) # {}
                   THEN [route |-> "/:id", id |-> id, status |-> 200, found |-> TRUE,
                         rows |-> Matching("posts", db["posts"], id)]
                   ELSE [route |-> "/:id", id |-> id, status |-> 500, found |-> FALSE,
                         rows |-> {}]
    /\ UNCHANGED <<db, authUsers, pc, header, user, userId, step, res, ops, before>>

\* GET /:id : one select of the users row with its posts embedded; .single()
\* reports an error unless exactly one row matches.
GetProfile(id) ==
    LET found == Matching("users", db["users"], id) # {} IN
    /\ lastRead' = IF found
                   THEN [route |-> "/:id", id |-> id, status |-> 200, found |-> TRUE,
                         rows |-> Matching("posts", db["posts"], id)]
                   ELSE [route |-> "/:id", id |-> id, status |-> 500, found |-> FALSE,
                         rows |-> {}]
    /\ UNCHANGED <<db, authUsers, pc, header, user, userId, step, res, ops, before>>

\* GET /:id/posts and GET /:id/comments : one select by user_id.
GetRows(route, table, id) ==
    /\ lastRead' = [route |-> route, id |-> id, status |-> 200, found |-> FALSE,
                    rows |-> Matching(table, db[table], id)]
    /\ UNCHANGED <<db, authUsers, pc, header, user, userId, step, res, ops, before>>

GetPosts(id) == GetRows("/:id/posts", "posts", id)
GetComments(id) == GetRows("/:id/comments", "comments", id)

\* Delete requests overlap freely.
Next ==
    \/ \E r \in Runs : DeleteProfile(r) /\ UNCHANGED before
    \/ \E r \in Runs : DeleteUserId(r) /\ UNCHANGED before
    \/ \E r \in Runs : DeleteStep(r)
    \/ \E r \in Runs : CredentialStep(r)

Spec == Init /\ [][Next]_vars

\* One delete request at a time, over every initial store; the store is
\* recorded when a request arrives.
InFlight == {q \in Runs : pc[q] = "await"}

NextSerial ==
    \/ \E r \in Runs : InFlight = {} /\ DeleteProfile(r) /\ before' = db
    \/ \E r \in Runs : InFlight = {} /\ DeleteUserId(r) /\ before' = db
    \/ \E r \in Runs : DeleteStep(r)
    \/ \E r \in Runs : CredentialStep(r)

SpecSerial == InitSerial /\ [][NextSerial]_vars

\* Read requests between any two steps of the delete requests, which come
\* one at a time.
NextRead ==
    \/ NextSerial
    \/ \E id \in Accounts : GetProfile(id)
    \/ \E id \in Accounts : GetPosts(id)
    \/ \E id \in Accounts : GetComments(id)

SpecRead == Start({FullStore}) /\ [][NextRead]_vars

\* ---------------------------------------------------------------- claims
Done(r) == pc[r] = "done"
Succeeded(r) ==
    Done(r) /\ res[r] = [status |-> 200, message |-> "Account successfully deleted"]
\* The handler passed its checks and started the workflow.
Workflow(r) == pc[r] = "await" \/ ops[r] # <<>>
\* The request that arrived last.
Latest(r) == pc[r] # "idle" /\ \A q \in Runs : q > r => pc[q] = "idle"
NoFault(r) == \A i \in DOMAIN ops[r] : ops[r][i].fault = "none"
\* The calls a request has sent are those that returned, ops[r], and the one
\* it awaits.
Awaiting(r) == pc[r] = "await"
Awaited(r) == [target |-> StepTable[step[r]], id |-> userId[r]]
NothingSent(r) == ops[r] = <<>> /\ ~Awaiting(r)
RowsOf(store, a) == UNION {Matching(t, store[t], a) : t \in Tables}

\* C1: a deletion of account A that answers 200 'Account successfully
\* deleted' leaves no posts, likes, comments or bookmarks row with
\* user_id = A, no subscribers row with A in either role and no users row.
C1_DeletedAccountLeavesNoRows ==
    \A r \in Runs :
        Succeeded(r) =>
            /\ \A t \in {"posts", "likes", "comments", "bookmarks"} :
                   \A row \in db[t] : row.user_id # userId[r]
            /\ \A row \in db["subscribers"] :
                   row.subscriber_id # userId[r] /\ row.creator_id # userId[r]
            /\ \A row \in db["users"] : row.id # userId[r]

\* A deletion succeeded for an account that had rows in every table.
C1_Witness ==
    \E r \in Runs :
        /\ Latest(r) /\ Succeeded(r)
        /\ \A t \in Tables : Matching(t, before[t], userId[r]) # {}
        /\ \E row \in before["subscribers"] : row.creator_id = userId[r]

\* C2: a delete request for account A from a caller authenticated as B # A
\* ends with 403 and sends no delete; every delete that is ever sent filters
\* on the authenticated caller's own identifier.
C2_OnlyOwnAccount ==
    \A r \in Runs :
        /\ (user[r] # NoUser /\ userId[r] # "" /\ userId[r] # LoggedInUserId(user[r]))
              => /\ Done(r)
                 /\ res[r].status = 403
                 /\ NothingSent(r)
        /\ \A i \in DOMAIN ops[r] : ops[r][i].id = LoggedInUserId(user[r])
        /\ Awaiting(r) => Awaited(r).id = LoggedInUserId(user[r])

\* One request was refused with 403 for naming another account while
\* another request's deletes are under way.
C2_Witness ==
    \E r, q \in Runs :
        /\ Done(r) /\ res[r].status = 403
        /\ user[r] # NoUser /\ userId[r] # LoggedInUserId(user[r])
        /\ Len(ops[q]) >= 2

\* C3: the deletes of one request are sent in the order posts, likes,
\* comments, bookmarks, subscribers, users, credential, each only after all
\* earlier ones returned without an error.
C3_OrderedAndAborting ==
    \A r \in Runs :
        LET order == <<"posts", "likes", "comments", "bookmarks", "subscribers",
                       "users", "auth.users">>
            sent == Len(ops[r]) + (IF Awaiting(r) THEN 1 ELSE 0)
        IN  /\ sent <= 7
            /\ \A i \in DOMAIN ops[r] :
                  /\ ops[r][i].target = order[i]
                  /\ i < sent => ops[r][i].outcome = "ok"
            /\ Awaiting(r) => Awaited(r).target = order[sent]

\* One request stopped at a failing third step, another sent all seven.
C3_Witness ==
    \E r, q \in Runs :
        /\ Done(r) /\ Len(ops[r]) = 3 /\ ops[r][3].outcome = "error"
        /\ Len(ops[q]) = 7

\* C4: when step 7 fails, by throwing or by returning an error, the request
\* is still answered 200 'Account successfully deleted', and step 7 leaves
\* the primary store as it is whatever its outcome.
C4_CredentialFailureIsSwallowed ==
    [][\A r \in Runs :
          (pc[r] = "await" /\ step[r] = 7 /\ pc'[r] = "done")
              => /\ db' = db
                 /\ res'[r] = [status |-> 200,
                               message |-> "Account successfully deleted"]]_vars

\* Step 7 threw for one request and returned an error for another.
C4_Witness ==
    \E r, q \in Runs :
        /\ Succeeded(r) /\ Len(ops[r]) = 7 /\ ops[r][7].outcome = "thrown"
        /\ Succeeded(q) /\ Len(ops[q]) = 7 /\ ops[q][7].outcome = "error"

\* A workflow for an account that an earlier request deleted successfully.
Rerun(r) ==
    /\ Workflow(r)
    /\ \E q \in Runs : q < r /\ Succeeded(q) /\ userId[q] = userId[r]

C6_AbortLeavesPartialState ==
    \A r \in Runs :
        /\ (\E i \in DOMAIN ops[r] : i <= 6 /\ ops[r][i].outcome = "error")
              => Done(r) /\ res[r].status = 500
        /\ (Latest(r) /\ Done(r) /\ res[r].status = 500)
              => LET k == Len(ops[r]) IN
                 /\ k \in 1..6
                 /\ ops[r][k].outcome = "error"
                 /\ res[r].message = "Error deleting account"
                 /\ \A j \in 1..6 :
                       IF j < k
                       THEN Matching(StepTable[j], db[StepTable[j]], userId[r]) = {}
                       ELSE db[StepTable[j]] = before[StepTable[j]]

\* The third step failed for an account that had rows in every table.
C6_Witness ==
    \E r \in Runs :
        /\ Latest(r) /\ Done(r) /\ res[r].status = 500 /\ Len(ops[r]) = 3
        /\ \A t \in Tables : Matching(t, before[t], userId[r]) # {}
        /\ Matching("comments", db["comments"], userId[r]) # {}

\* C7: a delete request without a bearer token is answered 401, one whose
\* token fails verification 403, neither sends a delete; the handler runs
\* only with req.user set to the payload of a verified token.
C7_AuthenticatedBeforeWorkflow ==
    \A r \in Runs :
        pc[r] # "idle" =>
            /\ Len(header[r]) < 2
                  => /\ Done(r) /\ NothingSent(r) /\ userId[r] = ""
                     /\ res[r] = [status |-> 401, message |-> "Access denied"]
            /\ (Len(header[r]) >= 2 /\ header[r][2] \notin {"t1", "t2"})
                  => /\ Done(r) /\ NothingSent(r) /\ userId[r] = ""
                     /\ res[r] = [status |-> 403, message |-> "Invalid token"]
            /\ (Workflow(r) \/ userId[r] # "")
                  => /\ Len(header[r]) >= 2
                     /\ header[r][2] \in {"t1", "t2"}
                     /\ user[r] = JwtPayload[header[r][2]]

\* One request had no token, another a token that does not verify.
C7_Witness ==
    \E r, q \in Runs :
        /\ res[r].status = 401 /\ header[r] = <<"Bearer">>
        /\ res[q].status = 403 /\ header[q] = <<"Bearer", "bad">>

\* C8: two deletions of the same account with no injected failure both
\* answer 200 with no step reporting an error, whatever their interleaving,
\* and leave no row of the account.
C8_RacingDeletionsBothSucceed ==
    \A r, q \in Runs :
        (r # q /\ Workflow(r) /\ Workflow(q) /\ userId[r] = userId[q]
              /\ NoFault(r) /\ NoFault(q))
            => /\ \A i \in DOMAIN ops[r] : i <= 6 => ops[r][i].outcome = "ok"
               /\ Done(r) => Succeeded(r)
               /\ (Done(r) /\ Done(q)) => RowsOf(db, userId[r]) = {}

\* Two deletions of one account overlapped and both answered 200.
C8_Witness ==
    \E r, q \in Runs :
        /\ r < q /\ userId[r] = userId[q]
        /\ Succeeded(r) /\ Succeeded(q) /\ NoFault(r) /\ NoFault(q)
        /\ ops[r][7].outcome = "error" /\ ops[q][7].outcome = "ok"

\* C9: a read of account A is not isolated from a deletion of A: while the
\* workflow is between two steps the read runs and returns the store as it
\* is then.
C9_ReadsNotIsolated ==
    \A r \in Runs, id \in Accounts :
        pc[r] = "await" =>
            /\ ENABLED (GetProfile(id)
                          /\ lastRead'.found = ([id |-> id] \in db["users"])
                          /\ lastRead'.rows = Matching("posts", db["posts"], id))
            /\ ENABLED (GetComments(id)
                          /\ lastRead'.rows = Matching("comments", db["comments"], id))

\* GET /:id answered with the account and no posts while the only deletion
\* so far, of that account, which had posts, still has its comments to
\* delete.
C9_Witness ==
    \E r \in Runs :
        /\ Latest(r) /\ r = 1 /\ pc[r] = "await" /\ step[r] = 3
        /\ Matching("posts", FullStore["posts"], userId[r]) # {}
        /\ lastRead = [route |-> "/:id", id |-> userId[r], status |-> 200,
                       found |-> TRUE, rows |-> {}]
        /\ Matching("comments", db["comments"], userId[r]) # {}

\* C10 as stated: after a successful deletion of A no likes, comments or
\* bookmarks row of another account references a post of A that step 1
\* removed.
C10_NoDanglingPostReferences ==
    \A r \in Runs :
        (Latest(r) /\ Succeeded(r)) =>
            \A t \in LinkTables : \A row \in db[t] :
                ~ /\ row.user_id # userId[r]
                  /\ \E p \in Matching("posts", before["posts"], userId[r]) :
                        p.id = row.post_id /\ p \notin db["posts"]

====
